---- MODULE Spec2Model ----
(***************************************************************************)
(* ClickhouseWriter (worker/src/services/ClickhouseWriter/index.ts): the   *)
(* buffered multi-destination write coalescer.  One queue per table, a     *)
(* repeating timer that sweeps every table, a threshold flush started by   *)
(* addToQueue, a draining flush in shutdown, and the backOff attempt loop  *)
(* with its retry callback (retry / split / truncate / give up) followed   *)
(* by the catch block that requeues or drops what is left.                 *)
(*                                                                         *)
(* The program runs on the JavaScript event loop: code between two awaits  *)
(* is one atomic step.  A flush removes its batch from the queue and makes *)
(* its first write call in the step that starts it; the answer of the      *)
(* store, the retry callback and (when the loop ends) the catch block are  *)
(* one step; the end of the backoff delay and the next write call are one  *)
(* step.                                                                   *)
(***************************************************************************)
EXTENDS Integers, Sequences, FiniteSets, TLC

VARIABLES
    batchSize,                  \* this.batchSize
    maxAttempts,                \* this.maxAttempts
    queue,                      \* this.queue: table -> sequence of queue items
    cycles,                     \* the flush invocations that are in flight
    isIntervalFlushInProgress,  \* this.isIntervalFlushInProgress
    intervalId,                 \* TRUE while the setInterval timer is installed
    shut,                       \* position of shutdown(); what was queued and in flight
                                \* when it was called; whether since then no item
                                \* was enqueued and no write failed
    nextId,                     \* identity given to the next enqueued item
    acks,                       \* id of every item enqueued so far -> number of
                                \* successful write calls that carried it
    enqueued,                   \* table -> ids of the items addToQueue was given, in order
    takes,                      \* table -> ids of the items flush() took, in order
    noFailure,                  \* TRUE as long as no write call has thrown
    stored,                     \* ids of the records an upsert of the store has taken
    dropped,                    \* ids of the items the catch block dropped
    dropCounter,                \* the metric langfuse.queue.clickhouse_writer.error
    ended                       \* the flush cycle that ended in the last step, if one did

vars == <<batchSize, maxAttempts, queue, cycles, isIntervalFlushInProgress, intervalId, shut, nextId,
          acks, enqueued, takes, noFailure, stored, dropped, dropCounter, ended>>

---------------------------------------------------------------------------
\* Bounds of the model.  The constructor reads batchSize and maxAttempts from
\* env.LANGFUSE_INGESTION_CLICKHOUSE_WRITE_BATCH_SIZE and _MAX_ATTEMPTS; the
\* model explores every value from 1 up to these.
MaxBatchSize == 2

MaxAttemptsCap == 2

\* Number of addToQueue calls explored.
MaxItems == 2

\* The same for the runs with one table and a larger batch (SplitSpec).
SplitBatchSize == 4

SplitItems == 5

\* The same for the runs over the records of every shape (CodecSpec).
CodecItems == 1

\* The same for the runs with a store that fails every write (FailingSpec).
FailingItems == 2

\* The same, and the value of env.LANGFUSE_INGESTION_CLICKHOUSE_MAX_ATTEMPTS,
\* for the runs with errors of several signatures (MixedSpec).
MixedItems == 2

MixedAttempts == 3

\* The same for the runs with a store that never fails (HealthySpec).
HealthyItems == 3

\* env.LANGFUSE_INGESTION_CLICKHOUSE_MAX_ATTEMPTS, which flush() gives backOff
\* as numOfAttempts, is the value the constructor stored in this.maxAttempts.
numOfAttempts == maxAttempts

\* The tables whose writes reach the store (writeRecordToPostgres has a case
\* with an upsert for them); the other five tables are no-ops there.
TableName == {"traces", "scores"}

---------------------------------------------------------------------------
\* Records and the truncation of their size-sensitive fields.
\* A string is modelled by its length and by whether it ends with the marker.

maxFieldSize == 1024 * 1024

prefixLength == 500 * 1024

\* "[TRUNCATED: Field exceeded size limit]".length
truncationMessage == 38

\* null (or undefined) where a string may stand
Null == [len |-> -1, marked |-> FALSE]

Str(n) == [len |-> n, marked |-> FALSE]

IsStr(v) == v # Null

\* value.substring(0, n)
Substring(v, n) == IF v.len <= n THEN v ELSE [len |-> n, marked |-> FALSE]

\* value + truncationMessage
Concat(v) == [len |-> v.len + truncationMessage, marked |-> TRUE]

\* JavaScript truthiness of a string-or-null value
Truthy(v) == IsStr(v) /\ v.len > 0

\* (the prefix cut at the limit itself, not at 500 KiB)
truncateFieldAtLimit(value) ==
    IF ~Truthy(value) THEN Null
    ELSE IF value.len > maxFieldSize THEN Concat(Substring(value, maxFieldSize))
    ELSE value

truncateField(value) ==
    IF ~Truthy(value) THEN Null
    ELSE IF value.len > maxFieldSize THEN Concat(Substring(value, prefixLength))
    ELSE value

TruncateInput(record) ==
    IF Truthy(record.input) /\ record.input.len > maxFieldSize
    THEN truncateField(record.input) ELSE record.input

\* (the output block testing the length of input)
TruncateOutputByInput(record) ==
    IF Truthy(record.output) /\ record.input.len > maxFieldSize
    THEN truncateField(record.output) ELSE record.output

TruncateOutput(record) ==
    IF Truthy(record.output) /\ record.output.len > maxFieldSize
    THEN truncateField(record.output) ELSE record.output

\* metadata is the sequence of its values (one per key, in Object.entries
\* order); a record without metadata has the empty sequence, which the loop
\* leaves as it is
TruncateMetadata(record) ==
    IF record.metadata = <<>> THEN <<>>
    ELSE [k \in DOMAIN record.metadata |->
            LET value == record.metadata[k] IN
            IF Truthy(value) /\ value.len > maxFieldSize
            THEN (IF truncateField(value) = Null THEN Str(0) ELSE truncateField(value))
            ELSE value]

truncateOversizedRecord(record) ==
    [input |-> TruncateInput(record),
     output |-> TruncateOutput(record),
     metadata |-> TruncateMetadata(record)]

\* The payload producers enqueue: input and output over the limit, one
\* metadata value exactly at the limit and one over it.
BigRecord ==
    [input |-> Str(2 * maxFieldSize), output |-> Str(maxFieldSize + 1),
     metadata |-> <<Str(maxFieldSize), Str(maxFieldSize + 1)>>]

Payloads == {BigRecord}

\* Records of every shape: each field absent, empty, short, exactly at the
\* limit, just over it or far over it; metadata absent or with one key.
FieldValues ==
    {Null, Str(0), Str(prefixLength), Str(maxFieldSize), Str(maxFieldSize + 1),
     Str(2 * maxFieldSize)}

Records ==
    [input : FieldValues, output : FieldValues,
     metadata : {<<>>} \cup {<<v>> : v \in FieldValues}]

---------------------------------------------------------------------------
\* Errors thrown by the write, modelled by the phrases their lower-cased
\* message contains, and the three predicates of the writer.

HangUp == "socket hang up"
StrLen == "invalid string length"
SizeA == "size of json object"
SizeB == "extremely large"
SizeC == "expected not greater than"

\* The errors the store answers with: one of each kind, one with two of the
\* three phrases of a size error, and one with no known phrase (or with no
\* message at all: the predicates read it as the empty string).
Errors == { {HangUp}, {StrLen}, {SizeA, SizeB, SizeC}, {SizeA, SizeB}, {} }

\* Errors whose message holds the phrases of more than one signature (the
\* predicates test the message with includes()), with the string-length
\* and the size error.
MixedErrors ==
    { {StrLen}, {SizeA, SizeB, SizeC},
      {HangUp, StrLen}, {HangUp, SizeA, SizeB, SizeC},
      {StrLen, SizeA, SizeB, SizeC}, {HangUp, StrLen, SizeA, SizeB, SizeC} }

isRetryableError(error) == HangUp \in error

\* (|| in place of &&)
isSizeErrorAnyPhrase(error) == SizeA \in error \/ SizeB \in error \/ SizeC \in error

isSizeError(error) == SizeA \in error /\ SizeB \in error /\ SizeC \in error

isStringLengthError(error) == StrLen \in error

---------------------------------------------------------------------------
\* Queue items and the pieces of flush().

Min(a, b) == IF a < b THEN a ELSE b

\* ClickhouseWriterQueueItem; createdAt only feeds a histogram and is left out.
\* id is the identity of the item and fails the number of flush cycles that
\* ended in the catch block with the item in their batch (neither is a field
\* of the program).
\* (attempts counted from 0)
NewItemUncounted(id, data) == [id |-> id, attempts |-> 0, data |-> data, fails |-> 0]

NewItem(id, data) == [id |-> id, attempts |-> 1, data |-> data, fails |-> 0]

IdsOf(items) == {items[i].id : i \in DOMAIN items}

\* (the whole queue whatever fullQueue says)
SpliceCountWholeQueue(q, fullQueue) == Len(q)

\* the second argument of entityQueue.splice(0, ...)
SpliceCount(q, fullQueue) == IF fullQueue THEN Len(q) ELSE batchSize

\* (the batch popped off the front one item at a time: last taken first)
SplicedReversed(q, n) ==
    LET m == Min(n, Len(q)) IN [i \in 1..m |-> q[m + 1 - i]]

\* entityQueue.splice(0, n): what it returns ...
Spliced(q, n) == SubSeq(q, 1, Min(n, Len(q)))

\* (slice in place of splice: the batch is read but stays in the queue)
RemainingSliced(q, n) == q

\* ... and what it leaves in the queue
Remaining(q, n) == SubSeq(q, Min(n, Len(q)) + 1, Len(q))

\* queueItems.map((item) => item.data) on the records the items refer to:
\* truncateOversizedRecord assigns to the fields of the record it is given,
\* so the truncated record is the one the queue item holds.
TruncateItems(items) ==
    [i \in DOMAIN items |->
        [items[i] EXCEPT !.data = truncateOversizedRecord(@)]]

\* (without the single-item fallback)
handleStringLengthErrorAlwaysSplit(queueItems) ==
    LET splitPoint == Len(queueItems) \div 2 IN
    [retryItems |-> SubSeq(queueItems, 1, splitPoint),
     requeueItems |-> SubSeq(queueItems, splitPoint + 1, Len(queueItems))]

\* (Math.ceil in place of Math.floor)
handleStringLengthErrorCeil(queueItems) ==
    IF Len(queueItems) = 1
    THEN [retryItems |-> TruncateItems(queueItems), requeueItems |-> <<>>]
    ELSE LET splitPoint == (Len(queueItems) + 1) \div 2 IN
         [retryItems |-> SubSeq(queueItems, 1, splitPoint),
          requeueItems |-> SubSeq(queueItems, splitPoint + 1, Len(queueItems))]

handleStringLengthError(queueItems) ==
    IF Len(queueItems) = 1
    THEN [retryItems |-> TruncateItems(queueItems), requeueItems |-> <<>>]
    ELSE LET splitPoint == Len(queueItems) \div 2 IN
         [retryItems |-> SubSeq(queueItems, 1, splitPoint),
          requeueItems |-> SubSeq(queueItems, splitPoint + 1, Len(queueItems))]

\* (the split-off items counted as one more attempt)
UnshiftCounted(q, requeueItems) ==
    [i \in DOMAIN requeueItems |-> [requeueItems[i] EXCEPT !.attempts = @ + 1]] \o q

\* (push in place of unshift)
UnshiftPushed(q, requeueItems) == q \o requeueItems

\* entityQueue.unshift(...requeueItems)
Unshift(q, requeueItems) == requeueItems \o q

\* A flush invocation right after its synchronous part: the batch is out of
\* the queue and the first write call has been made.
\*   taken, calls, errs, truncs, alone record what happened in the cycle:
\*   the batch first taken, the number of write calls made (each with the
\*   queueItems of that moment), the error of every failed call, the number
\*   of truncation passes, and whether no other handler has changed the
\*   table's queue since the cycle began.
NewCycle(tableName, trigger, queueItems) ==
    [table |-> tableName, trigger |-> trigger, pc |-> "writing",
     queueItems |-> queueItems, hasBeenTruncated |-> FALSE, attemptNumber |-> 0,
     taken |-> queueItems, calls |-> 1, errs |-> <<>>,
     truncs |-> 0, alone |-> TRUE]

\* The retry callback of backOff (the if / else-if chain): whether to retry,
\* and the batch, the flag and the queue as it leaves them.
\* (the retryable branch falling into the truncation of the size branch)
RetryableBranchTruncating(c) ==
    [shouldRetry |-> TRUE, queueItems |-> TruncateItems(c.queueItems),
     hasBeenTruncated |-> TRUE, requeueItems |-> <<>>,
     truncs |-> c.truncs + 1]

\* (the batch handed back to the queue before the retry)
RetryableBranchRequeueing(c) ==
    [shouldRetry |-> TRUE, queueItems |-> c.queueItems,
     hasBeenTruncated |-> c.hasBeenTruncated, requeueItems |-> c.queueItems,
     truncs |-> c.truncs]

RetryableBranch(c) ==
    [shouldRetry |-> TRUE, queueItems |-> c.queueItems,
     hasBeenTruncated |-> c.hasBeenTruncated, requeueItems |-> <<>>,
     truncs |-> c.truncs]

\* (the retry callback not called for the failure of the last attempt)
StringLengthBranchUnlessLast(c) ==
    LET h == handleStringLengthError(c.queueItems) IN
    IF c.attemptNumber + 1 >= numOfAttempts
    THEN [shouldRetry |-> FALSE, queueItems |-> c.queueItems,
          hasBeenTruncated |-> c.hasBeenTruncated, requeueItems |-> <<>>,
          truncs |-> c.truncs]
    ELSE [shouldRetry |-> TRUE, queueItems |-> h.retryItems,
          hasBeenTruncated |-> c.hasBeenTruncated, requeueItems |-> h.requeueItems,
          truncs |-> IF Len(c.queueItems) = 1 THEN c.truncs + 1 ELSE c.truncs]

StringLengthBranch(c) ==
    LET h == handleStringLengthError(c.queueItems) IN
    [shouldRetry |-> TRUE, queueItems |-> h.retryItems,
     hasBeenTruncated |-> c.hasBeenTruncated, requeueItems |-> h.requeueItems,
     truncs |-> IF Len(c.queueItems) = 1 THEN c.truncs + 1 ELSE c.truncs]

SizeBranch(c) ==
    [shouldRetry |-> TRUE, queueItems |-> TruncateItems(c.queueItems),
     hasBeenTruncated |-> TRUE, requeueItems |-> <<>>,
     truncs |-> c.truncs + 1]

FatalBranch(c) ==
    [shouldRetry |-> FALSE, queueItems |-> c.queueItems,
     hasBeenTruncated |-> c.hasBeenTruncated, requeueItems |-> <<>>,
     truncs |-> c.truncs]

retry(c, error) ==
    IF isRetryableError(error) THEN RetryableBranch(c)
    ELSE IF isStringLengthError(error) THEN StringLengthBranch(c)
    ELSE IF isSizeError(error) /\ ~c.hasBeenTruncated THEN SizeBranch(c)
    ELSE FatalBranch(c)

\* (backOff without a cap on the attempts)
attemptLimitIgnored(attemptNumber) == FALSE

\* backOff: this.attemptNumber >= this.options.numOfAttempts
attemptLimitReached(attemptNumber) == attemptNumber >= numOfAttempts

\* The catch block: the items pushed back, with attempts + 1 ...
\* (the cap counted one cycle short)
KeepItemBelowLast(item) == item.attempts + 1 < maxAttempts

\* (<= in place of <)
KeepItemOnceMore(item) == item.attempts <= maxAttempts

KeepItem(item) == item.attempts < maxAttempts

\* (the items pushed back as they were)
RequeuedUncounted(queueItems) == SelectSeq(queueItems, KeepItem)

Requeued(queueItems) ==
    LET kept == SelectSeq(queueItems, KeepItem) IN
    [i \in DOMAIN kept |-> [kept[i] EXCEPT !.attempts = @ + 1, !.fails = @ + 1]]

\* (the else branch of the catch block left empty)
DroppedIdsUncounted(queueItems) == {}

\* ... and the items dropped
DroppedIds(queueItems) == {queueItems[i].id : i \in {j \in DOMAIN queueItems : ~KeepItem(queueItems[j])}}

\* (unshift in place of push)
AfterFailureFront(q, queueItems) == Requeued(queueItems) \o q

AfterFailure(q, queueItems) == q \o Requeued(queueItems)

\* (the requeue of the catch block run in a finally block)
AfterSuccessRequeued(q, queueItems) == AfterFailure(q, queueItems)

\* After a successful backOff the try block only records metrics.
AfterSuccess(q, queueItems) == q

---------------------------------------------------------------------------
\* State after getInstance(): empty queues, timer installed by start().

NoCycle == [result |-> "none"]

NotCalled ==
    [pc |-> "idle", queued |-> [t \in TableName |-> <<>>], inflight |-> {},
     clean |-> TRUE]

InitWith(size, attempts) ==
    /\ batchSize = size
    /\ maxAttempts = attempts
    /\ queue = [t \in TableName |-> <<>>]
    /\ cycles = {}
    /\ isIntervalFlushInProgress = FALSE
    /\ intervalId = TRUE
    /\ shut = NotCalled
    /\ nextId = 1
    /\ acks = <<>>
    /\ enqueued = [t \in TableName |-> <<>>]
    /\ takes = [t \in TableName |-> <<>>]
    /\ noFailure = TRUE
    /\ stored = {}
    /\ dropped = {}
    /\ dropCounter = 0
    /\ ended = NoCycle

Init == \E size \in 1..MaxBatchSize, attempts \in 1..MaxAttemptsCap : InitWith(size, attempts)

\* The cycles in cs, those of the tables in ts marked as having seen another
\* handler change their table's queue.
Touch(cs, ts) ==
    {IF c.table \in ts THEN [c EXCEPT !.alone = FALSE] ELSE c : c \in cs}

\* flush(tableName, fullQueue) up to its first await, on every table of ts
\* at once (flushAll calls them one after the other in one step).
FlushQueues(q, ts, fullQueue) ==
    [t \in TableName |->
        IF t \in ts THEN Remaining(q[t], SpliceCount(q[t], fullQueue)) ELSE q[t]]

FlushCycles(q, ts, fullQueue, trigger) ==
    {NewCycle(t, trigger, Spliced(q[t], SpliceCount(q[t], fullQueue))) :
        t \in {u \in ts : Len(q[u]) > 0}}

\* the ids of the items of a list, in order
IdSeq(items) == [i \in DOMAIN items |-> items[i].id]

\* takes after flush(tableName, fullQueue) on every table of ts
FlushTakes(q, ts, fullQueue) ==
    [t \in TableName |->
        IF t \in ts THEN takes[t] \o IdSeq(Spliced(q[t], SpliceCount(q[t], fullQueue)))
        ELSE takes[t]]

NonEmpty(q) == {t \in TableName : Len(q[t]) > 0}

\* (the threshold flush skipped while an interval sweep is in progress)
QueueIsFullAndNoSweep(q) == Len(q) >= batchSize /\ ~isIntervalFlushInProgress

\* (> in place of >=)
QueueIsOverFull(q) == Len(q) > batchSize

\* entityQueue.length >= this.batchSize in addToQueue
QueueIsFull(q) == Len(q) >= batchSize

\* addToQueue(tableName, data)
AddToQueue(tableName, data) ==
    /\ LET pushed == [queue EXCEPT ![tableName] = Append(@, NewItem(nextId, data))]
           ts == IF QueueIsFull(pushed[tableName]) THEN {tableName} ELSE {}
       IN /\ queue' = FlushQueues(pushed, ts, FALSE)
          /\ cycles' = Touch(cycles, {tableName})
                          \cup FlushCycles(pushed, ts, FALSE, "threshold")
          /\ takes' = FlushTakes(pushed, ts, FALSE)
    /\ enqueued' = [enqueued EXCEPT ![tableName] = Append(@, nextId)]
    /\ nextId' = nextId + 1
    /\ acks' = Append(acks, 0)
    /\ shut' = IF shut.pc = "draining" THEN [shut EXCEPT !.clean = FALSE] ELSE shut
    /\ ended' = NoCycle
    /\ UNCHANGED <<batchSize, maxAttempts, isIntervalFlushInProgress, intervalId,
                   noFailure, stored, dropped, dropCounter>>

\* (the callback without its first line)
SweepNeverInProgress == FALSE

\* if (this.isIntervalFlushInProgress) return;
SweepInProgress == isIntervalFlushInProgress

\* The setInterval callback when no interval flush is in progress: flushAll().
\* With every queue empty all flushes return at once and the flag is cleared
\* again before any other handler runs.
Tick ==
    /\ intervalId
    /\ ~SweepInProgress
    /\ queue' = FlushQueues(queue, TableName, FALSE)
    /\ cycles' = Touch(cycles, NonEmpty(queue))
                    \cup FlushCycles(queue, TableName, FALSE, "interval")
    /\ takes' = FlushTakes(queue, TableName, FALSE)
    /\ isIntervalFlushInProgress' = (NonEmpty(queue) # {})
    /\ ended' = NoCycle
    /\ UNCHANGED <<batchSize, maxAttempts, intervalId, shut, nextId, acks,
                   enqueued, noFailure, stored, dropped, dropCounter>>

\* The setInterval callback while an interval flush is in progress: return.
TickSkipped ==
    /\ intervalId
    /\ SweepInProgress
    /\ UNCHANGED vars

\* (shutdown() without clearInterval)
TimerLeftRunning == TRUE

\* whether the timer is installed after clearInterval(this.intervalId)
ClearInterval == FALSE

\* (flushAll() without its argument)
ShutdownBatchOnly == FALSE

\* the argument shutdown() gives flushAll
ShutdownFullQueue == TRUE

\* shutdown(): clearInterval, then flushAll(true) up to its await.
Shutdown ==
    /\ shut.pc = "idle"
    /\ intervalId' = ClearInterval
    /\ queue' = FlushQueues(queue, TableName, ShutdownFullQueue)
    /\ cycles' = Touch(cycles, NonEmpty(queue))
                    \cup FlushCycles(queue, TableName, ShutdownFullQueue, "shutdown")
    /\ takes' = FlushTakes(queue, TableName, ShutdownFullQueue)
    /\ shut' = [pc |-> IF NonEmpty(queue) # {} THEN "draining" ELSE "returned",
                queued |-> queue,
                inflight |-> UNION {IdsOf(c.queueItems) : c \in cycles},
                clean |-> TRUE]
    /\ ended' = NoCycle
    /\ UNCHANGED <<batchSize, maxAttempts, isIntervalFlushInProgress, nextId,
                   acks, enqueued, noFailure, stored, dropped, dropCounter>>

\* What the end of cycle c resolves: the interval sweep (.finally clears the
\* flag) or shutdown()'s await, once every flush they started has ended.
\* (flushAll without the .finally that clears the flag)
SweepNeverOver(c, rest) == FALSE

\* (Promise.race in place of Promise.all)
SweepOverAtFirst(c, rest) == c.trigger = "interval"

SweepOver(c, rest) ==
    c.trigger = "interval" /\ \A d \in rest : d.trigger # "interval"

\* (flushAll settling with the first flush that settles)
DrainOverAtFirst(c, rest) == c.trigger = "shutdown"

DrainOver(c, rest) ==
    c.trigger = "shutdown" /\ \A d \in rest : d.trigger # "shutdown"

EndCycle(c, rest) ==
    /\ isIntervalFlushInProgress' =
          (IF SweepOver(c, rest) THEN FALSE ELSE isIntervalFlushInProgress)
    /\ shut' = IF DrainOver(c, rest) THEN [shut EXCEPT !.pc = "returned"] ELSE shut

Ended(c, result, q, drops) ==
    [result |-> result, cycle |-> c, queueBefore |-> q, dropsBefore |-> drops]

\* writeToClickhouse hands the records to the store one after the other and
\* throws at the first upsert that throws: the records before it are stored.
StoredBefore(queueItems, k) == IdsOf(SubSeq(queueItems, 1, k - 1))

\* The write call of cycle c resolves: backOff returns, flush returns.
WriteSucceeds(c) ==
    /\ c.pc = "writing"
    /\ LET rest == cycles \ {c}
           q == AfterSuccess(queue[c.table], c.queueItems)
       IN /\ queue' = [queue EXCEPT ![c.table] = q]
          /\ cycles' = IF q = queue[c.table] THEN rest ELSE Touch(rest, {c.table})
          /\ acks' = [i \in DOMAIN acks |->
                        IF i \in IdsOf(c.queueItems) THEN acks[i] + 1 ELSE acks[i]]
          /\ stored' = stored \cup IdsOf(c.queueItems)
          /\ ended' = Ended(c, "ok", queue[c.table], dropCounter)
          /\ EndCycle(c, rest)
    /\ UNCHANGED <<batchSize, maxAttempts, intervalId, nextId, enqueued, takes,
                   noFailure, dropped, dropCounter>>

\* The write call of cycle c throws error at its k-th record: backOff counts
\* the attempt and calls retry; then either it waits for the next attempt, or
\* it throws and the catch block of flush requeues or drops the batch.
WriteFails(c, error, k) ==
    /\ c.pc = "writing"
    /\ stored' = stored \cup StoredBefore(c.queueItems, k)
    /\ LET rest == cycles \ {c}
           r == retry(c, error)
           n == c.attemptNumber + 1
           q1 == Unshift(queue[c.table], r.requeueItems)
           c1 == [c EXCEPT !.queueItems = r.queueItems,
                           !.hasBeenTruncated = r.hasBeenTruncated,
                           !.attemptNumber = n,
                           !.truncs = r.truncs,
                           !.errs = Append(@, error),
                           !.pc = "delay"]
           q2 == AfterFailure(q1, r.queueItems)
           shut1 == IF shut.pc = "draining" THEN [shut EXCEPT !.clean = FALSE] ELSE shut
       IN IF r.shouldRetry /\ ~attemptLimitReached(n)
          THEN /\ queue' = [queue EXCEPT ![c.table] = q1]
               /\ cycles' = (IF q1 = queue[c.table] THEN rest ELSE Touch(rest, {c.table}))
                               \cup {c1}
               /\ shut' = shut1
               /\ ended' = NoCycle
               /\ UNCHANGED <<isIntervalFlushInProgress, dropped, dropCounter>>
          ELSE /\ queue' = [queue EXCEPT ![c.table] = q2]
               /\ cycles' = IF q2 = queue[c.table] THEN rest ELSE Touch(rest, {c.table})
               /\ dropped' = dropped \cup DroppedIds(r.queueItems)
               /\ dropCounter' = dropCounter + Cardinality(DroppedIds(r.queueItems))
               /\ ended' = Ended(c1, "failed", queue[c.table], dropCounter)
               /\ isIntervalFlushInProgress' =
                     (IF SweepOver(c, rest) THEN FALSE ELSE isIntervalFlushInProgress)
               /\ shut' = IF DrainOver(c, rest)
                          THEN [shut1 EXCEPT !.pc = "returned"] ELSE shut1
    /\ noFailure' = FALSE
    /\ UNCHANGED <<batchSize, maxAttempts, intervalId, nextId, acks, enqueued, takes>>

\* The backoff delay of cycle c is over: the next write call is made.
WriteAgain(c) ==
    /\ c.pc = "delay"
    /\ cycles' = (cycles \ {c})
                    \cup {[c EXCEPT !.pc = "writing", !.calls = @ + 1]}
    /\ ended' = NoCycle
    /\ UNCHANGED <<batchSize, maxAttempts, queue, isIntervalFlushInProgress,
                   intervalId, shut, nextId, acks, enqueued, takes, noFailure,
                   stored, dropped, dropCounter>>

Next ==
    \/ \E t \in TableName, data \in Payloads : nextId <= MaxItems /\ AddToQueue(t, data)
    \/ Tick
    \/ TickSkipped
    \/ Shutdown
    \/ \E c \in cycles : WriteSucceeds(c)
    \/ \E c \in cycles, error \in Errors :
          \E k \in DOMAIN c.queueItems : WriteFails(c, error, k)
    \/ \E c \in cycles : WriteAgain(c)

Spec == Init /\ [][Next]_vars

\* The store answers every write call (it resolves or it throws) and the
\* timer of every backoff delay fires: a running flush takes its next step.
CycleStep ==
    \/ \E c \in cycles : WriteSucceeds(c)
    \/ \E c \in cycles, error \in Errors :
          \E k \in DOMAIN c.queueItems : WriteFails(c, error, k)
    \/ \E c \in cycles : WriteAgain(c)

FairSpec == Init /\ [][Next]_vars /\ WF_vars(CycleStep)

\* One record of any shape, written in batches of one: enqueued, flushed,
\* truncated by the retry callback when the store answers with a size or
\* string-length error, requeued by the catch block and flushed again by
\* the timer.
CodecInit == \E attempts \in 1..MaxAttemptsCap : InitWith(1, attempts)

CodecNext ==
    \/ \E data \in Records : nextId <= CodecItems /\ AddToQueue("traces", data)
    \/ Tick
    \/ TickSkipped
    \/ CycleStep

CodecSpec == CodecInit /\ [][CodecNext]_vars

\* One producer filling the queue of one table up to a batch of
\* SplitBatchSize, before the first timer tick (writeInterval is long): the
\* flushes are those started by addToQueue and by shutdown().
SplitInit == \E attempts \in 1..MaxAttemptsCap : InitWith(SplitBatchSize, attempts)

SplitNext ==
    \/ \E data \in Payloads : nextId <= SplitItems /\ AddToQueue("traces", data)
    \/ Shutdown
    \/ \E c \in cycles : WriteSucceeds(c)
    \/ \E c \in cycles, error \in Errors :
          \E k \in DOMAIN c.queueItems : WriteFails(c, error, k)
    \/ \E c \in cycles : WriteAgain(c)

SplitSpec == SplitInit /\ [][SplitNext]_vars

\* A store that never fails and a timer that keeps running: no write throws
\* and shutdown() is not called.  setInterval fires again and again, and
\* every write call is answered.
HealthyNext ==
    \/ \E t \in TableName, data \in Payloads :
          nextId <= HealthyItems /\ AddToQueue(t, data)
    \/ Tick
    \/ TickSkipped
    \/ \E c \in cycles : WriteSucceeds(c)

HealthyFairness ==
    /\ WF_vars(Tick)
    /\ WF_vars(\E c \in cycles : WriteSucceeds(c))

HealthySpec == Init /\ [][HealthyNext]_vars /\ HealthyFairness

\* A store that throws at every write call, with an error of any kind, and
\* a timer that keeps running: no write resolves and shutdown() is not
\* called.  setInterval fires again and again, every write call is
\* answered (here: throws) and the timer of every backoff delay fires.
FailingNext ==
    \/ \E t \in TableName, data \in Payloads :
          nextId <= FailingItems /\ AddToQueue(t, data)
    \/ Tick
    \/ TickSkipped
    \/ \E c \in cycles, error \in Errors :
          \E k \in DOMAIN c.queueItems : WriteFails(c, error, k)
    \/ \E c \in cycles : WriteAgain(c)

FailingFairness ==
    /\ WF_vars(Tick)
    /\ WF_vars(\E c \in cycles, error \in Errors :
                  \E k \in DOMAIN c.queueItems : WriteFails(c, error, k))
    /\ WF_vars(\E c \in cycles : WriteAgain(c))

FailingSpec == Init /\ [][FailingNext]_vars /\ FailingFairness

\* One producer of one table, three attempts per cycle, and a store whose
\* errors may carry the phrases of several signatures at once, before the
\* first timer tick (writeInterval is long): the flushes are those started
\* by addToQueue and by shutdown().
MixedInit == InitWith(MaxBatchSize, MixedAttempts)

MixedNext ==
    \/ \E data \in Payloads : nextId <= MixedItems /\ AddToQueue("traces", data)
    \/ Shutdown
    \/ \E c \in cycles : WriteSucceeds(c)
    \/ \E c \in cycles, error \in MixedErrors :
          \E k \in DOMAIN c.queueItems : WriteFails(c, error, k)
    \/ \E c \in cycles : WriteAgain(c)

MixedSpec == MixedInit /\ [][MixedNext]_vars

---------------------------------------------------------------------------
\* Where the items are.

QueuedIds == UNION {IdsOf(queue[t]) : t \in TableName}

InFlightIds == UNION {IdsOf(c.queueItems) : c \in cycles}

NoRepeat(items) ==
    \A i, j \in DOMAIN items : items[i].id = items[j].id => i = j

\* what the retry callback takes the error for
OnlyRetryable(error) == isRetryableError(error)

OnlyStringLength(error) == ~isRetryableError(error) /\ isStringLengthError(error)

OnlySize(error) ==
    ~isRetryableError(error) /\ ~isStringLengthError(error) /\ isSizeError(error)

\* every failed write call of cycle c so far threw an error of one kind
AllRetryable(c) == \A i \in DOMAIN c.errs : OnlyRetryable(c.errs[i])

AllStringLength(c) == \A i \in DOMAIN c.errs : OnlyStringLength(c.errs[i])

AllSize(c) == \A i \in DOMAIN c.errs : OnlySize(c.errs[i])

---------------------------------------------------------------------------
\* C1: under every interleaving of enqueue, timer flush, threshold flush and
\* shutdown no item is held in two places: no item is in a queue and in an
\* in-flight batch, no two running flush cycles hold a common item, and no
\* queue or batch holds an item twice.
C1_SingleOwner ==
    /\ \A t \in TableName : NoRepeat(queue[t])
    /\ \A t, u \in TableName : t # u => IdsOf(queue[t]) \cap IdsOf(queue[u]) = {}
    /\ \A c \in cycles :
          /\ NoRepeat(c.queueItems)
          /\ IdsOf(c.queueItems) \cap QueuedIds = {}
          /\ \A d \in cycles : d # c => IdsOf(c.queueItems) \cap IdsOf(d.queueItems) = {}

\* an interval flush and a threshold flush of the same table run together
C1_Witness ==
    \E c, d \in cycles :
        /\ c.table = d.table
        /\ c.trigger = "interval"
        /\ d.trigger = "threshold"

\* C2: once a write call for a batch has succeeded the flush cycle is over and
\* no item of the batch is in a queue, in an in-flight batch (so none is
\* passed to the store again) or dropped; no item is acknowledged twice.
C2_AckedIsFinal ==
    /\ \A i \in DOMAIN acks :
          acks[i] >= 1 =>
              /\ acks[i] = 1
              /\ i \notin QueuedIds
              /\ i \notin InFlightIds
              /\ i \notin dropped
    /\ ended.result = "ok" =>
          /\ ended.cycle \notin cycles
          /\ \A i \in IdsOf(ended.cycle.queueItems) : acks[i] = 1

\* a cycle has succeeded after a failed attempt while another item is pending
C2_Witness ==
    /\ ended.result = "ok"
    /\ ended.cycle.errs # <<>>
    /\ QueuedIds \cup InFlightIds # {}

\* C3: a cycle whose write fails k times with a retryable error, k below
\* numOfAttempts, and then succeeds has made exactly k + 1 write calls, every
\* one with the batch first taken, and has requeued and dropped nothing.
C3_RetryThenSuccess ==
    /\ \A c \in cycles :
          AllRetryable(c) =>
              /\ c.queueItems = c.taken
              /\ Len(c.errs) < numOfAttempts
    /\ (ended.result = "ok" /\ AllRetryable(ended.cycle)) =>
          LET c == ended.cycle IN
          /\ c.calls = Len(c.errs) + 1
          /\ Len(c.errs) < numOfAttempts
          /\ c.queueItems = c.taken
          /\ queue[c.table] = ended.queueBefore
          /\ dropCounter = ended.dropsBefore
          /\ IdsOf(c.taken) \cap (dropped \cup QueuedIds) = {}

\* a cycle with a batch of two that succeeded after one retryable failure
C3_Witness ==
    /\ ended.result = "ok"
    /\ Len(ended.cycle.errs) = 1
    /\ AllRetryable(ended.cycle)
    /\ Len(ended.cycle.taken) = 2

\* A cycle that took four items, has had only string-length errors, and whose
\* table's queue no other handler has changed since it began.
FourItemSplitCase(c) ==
    /\ Len(c.taken) = 4
    /\ c.errs # <<>>
    /\ AllStringLength(c)
    /\ c.alone

\* C4 (as claimed, read for numOfAttempts >= 2, where a retry exists): for a
\* 4-item batch whose every attempt fails with a string-length error the
\* first failure keeps [i1,i2] and puts [i3,i4] at the front of the queue,
\* the two kept are retried in the same cycle, and when the cycle ends i3,i4
\* are the front of the queue.
C4_RemainderIsFront ==
    numOfAttempts >= 2 =>
    /\ \A c \in cycles :
          (FourItemSplitCase(c) /\ Len(c.errs) = 1) =>
              /\ c.queueItems = SubSeq(c.taken, 1, 2)
              /\ SubSeq(queue[c.table], 1, 2) = SubSeq(c.taken, 3, 4)
    /\ (ended.result = "failed" /\ FourItemSplitCase(ended.cycle)) =>
          /\ ended.cycle.calls >= 2
          /\ SubSeq(queue[ended.cycle.table], 1, 2) = SubSeq(ended.cycle.taken, 3, 4)

\* C4 (amended): the first failure keeps [i1,i2] and puts [i3,i4] at the front
\* of the queue.  With numOfAttempts >= 2 the two kept are retried in the same
\* cycle, that attempt fails too and splits them again, so that the queue
\* begins with i2,i3,i4 when the cycle ends; with numOfAttempts = 1 nothing is
\* retried and the queue begins with i3,i4.
C4_SplitTwice ==
    /\ \A c \in cycles :
          (FourItemSplitCase(c) /\ Len(c.errs) = 1) =>
              /\ c.queueItems = SubSeq(c.taken, 1, 2)
              /\ SubSeq(queue[c.table], 1, 2) = SubSeq(c.taken, 3, 4)
    /\ (ended.result = "failed" /\ FourItemSplitCase(ended.cycle)) =>
          LET c == ended.cycle IN
          /\ c.calls = numOfAttempts
          /\ IF numOfAttempts = 1
             THEN /\ c.queueItems = SubSeq(c.taken, 1, 2)
                  /\ SubSeq(queue[c.table], 1, 2) = SubSeq(c.taken, 3, 4)
             ELSE /\ IdsOf(c.queueItems) = {c.taken[1].id}
                  /\ SubSeq(queue[c.table], 1, 3) = SubSeq(c.taken, 2, 4)

\* a 4-item cycle has ended after two string-length errors
C4_Witness ==
    /\ ended.result = "failed"
    /\ FourItemSplitCase(ended.cycle)
    /\ ended.cycle.calls = 2
    /\ SubSeq(queue[ended.cycle.table], 1, 3) = SubSeq(ended.cycle.taken, 2, 4)

\* Every size-sensitive field of record d is at most maxFieldSize long.
FieldsWithin(d) ==
    /\ d.input.len <= maxFieldSize
    /\ d.output.len <= maxFieldSize
    /\ \A k \in DOMAIN d.metadata : d.metadata[k].len <= maxFieldSize

\* Every field that is over maxFieldSize in record d ends with the marker in e.
MarkedWhereOver(d, e) ==
    /\ d.input.len > maxFieldSize => e.input.marked
    /\ d.output.len > maxFieldSize => e.output.marked
    /\ DOMAIN e.metadata = DOMAIN d.metadata
    /\ \A k \in DOMAIN d.metadata :
          d.metadata[k].len > maxFieldSize => e.metadata[k].marked

\* C5: a cycle with a single-item batch whose write fails once with a size
\* error and then succeeds has truncated exactly once; the payload of the
\* retry (the batch in flight after the failure, and the batch written) has
\* every size-sensitive field at most maxFieldSize long, and every field that
\* was over it ends with the marker.
C5_TruncateOnceThenSuccess ==
    LET Case(c) == Len(c.taken) = 1 /\ Len(c.errs) = 1 /\ AllSize(c)
        Post(c) == /\ c.truncs = 1
                   /\ Len(c.queueItems) = 1
                   /\ c.queueItems[1].id = c.taken[1].id
                   /\ FieldsWithin(c.queueItems[1].data)
                   /\ MarkedWhereOver(c.taken[1].data, c.queueItems[1].data)
    IN /\ \A c \in cycles : Case(c) => Post(c)
       /\ (ended.result = "ok" /\ Case(ended.cycle)) =>
             /\ Post(ended.cycle)
             /\ ended.cycle.calls = 2

\* such a cycle has ended, with a payload that had every field over the limit
C5_Witness ==
    /\ ended.result = "ok"
    /\ Len(ended.cycle.taken) = 1
    /\ Len(ended.cycle.errs) = 1
    /\ AllSize(ended.cycle)
    /\ ended.cycle.taken[1].data = BigRecord

\* C6: when every write of a cycle fails with a size error, truncation is
\* applied once and the cycle stops after at most two write calls; an item
\* of its batch for which this was the maxAttempts-th failed cycle is dropped,
\* was never written, and counts 1 in the drop counter; otherwise it goes to
\* the back of the queue with attempts + 1 and is not dropped.
C6_SizeErrorForever ==
    /\ \A c \in cycles :
          (c.errs # <<>> /\ AllSize(c)) =>
              c.truncs = 1 /\ Len(c.errs) = 1 /\ c.calls <= 2
    /\ (ended.result = "failed" /\ AllSize(ended.cycle)) =>
          LET c == ended.cycle
              last == {i \in DOMAIN c.queueItems : c.queueItems[i].fails + 1 = maxAttempts}
          IN /\ c.truncs = 1
             /\ c.calls <= 2
             /\ c.calls = Len(c.errs)
             /\ dropCounter = ended.dropsBefore + Cardinality(last)
             /\ \A i \in DOMAIN c.queueItems :
                   LET item == c.queueItems[i] IN
                   IF i \in last
                   THEN /\ item.id \in dropped
                        /\ acks[item.id] = 0
                        /\ item.id \notin QueuedIds \cup InFlightIds
                   ELSE /\ item.fails + 1 < maxAttempts
                        /\ item.id \notin dropped
                        /\ \E j \in DOMAIN queue[c.table] :
                              /\ j > Len(ended.queueBefore)
                              /\ queue[c.table][j] =
                                    [item EXCEPT !.attempts = @ + 1, !.fails = @ + 1]
    /\ \A i \in dropped : acks[i] = 0

\* a single item is dropped at the end of its second cycle of size errors,
\* after two write calls in that cycle
C6_Witness ==
    /\ ended.result = "failed"
    /\ AllSize(ended.cycle)
    /\ Len(ended.cycle.errs) = 2
    /\ Len(ended.cycle.queueItems) = 1
    /\ ended.cycle.queueItems[1].fails = 1
    /\ ended.cycle.queueItems[1].id \in dropped
    /\ dropCounter = ended.dropsBefore + 1

\* C7: with no failed write and no enqueue since shutdown() was called,
\* every item of a table that had more than batchSize items queued at the
\* call has been written once shutdown() has returned, and that table's queue
\* is empty at the moment shutdown() returns; shutdown() has not returned
\* while a flush it started is running.
ShutdownJustReturned ==
    /\ shut.pc = "returned"
    /\ ended.result # "none"
    /\ ended.cycle.trigger = "shutdown"

C7_ShutdownDrains ==
    /\ shut.pc = "returned" => \A c \in cycles : c.trigger # "shutdown"
    /\ shut.pc = "draining" => \E c \in cycles : c.trigger = "shutdown"
    /\ (shut.pc = "returned" /\ shut.clean) =>
          \A t \in TableName :
              Len(shut.queued[t]) > batchSize =>
                  /\ \A i \in IdsOf(shut.queued[t]) : acks[i] = 1
                  /\ ShutdownJustReturned => queue[t] = <<>>

\* shutdown() has just returned after draining a table with more than
\* batchSize items
C7_Witness ==
    /\ ShutdownJustReturned
    /\ shut.clean
    /\ \E t \in TableName :
          /\ Len(shut.queued[t]) > batchSize
          /\ \A i \in IdsOf(shut.queued[t]) : acks[i] = 1
          /\ queue[t] = <<>>

\* C8: when shutdown() returns, every item that was queued or in flight when
\* it was called has been written or dropped, and none is still in a queue or
\* in an in-flight batch.
C8_ShutdownSettlesAll ==
    shut.pc = "returned" =>
        \A i \in UNION {IdsOf(shut.queued[t]) : t \in TableName} \cup shut.inflight :
            /\ acks[i] >= 1 \/ i \in dropped
            /\ i \notin QueuedIds \cup InFlightIds

\* C9: the addToQueue call that brings a table's queue to exactly batchSize
\* items starts a threshold flush in the same step: the queue is empty after
\* it and the new cycle holds the batchSize items, in order, with its first
\* write call made; and a successful threshold cycle puts nothing back.
C9_ThresholdFlush ==
    [][ /\ \A t \in TableName :
             (/\ nextId' = nextId + 1
              /\ Len(queue[t]) + 1 = batchSize
              /\ \/ nextId \in IdsOf(queue'[t])
                 \/ \E c \in cycles' : c.table = t /\ nextId \in IdsOf(c.queueItems))
             => /\ queue'[t] = <<>>
                /\ \E c \in cycles' \ cycles :
                      /\ c.table = t
                      /\ c.trigger = "threshold"
                      /\ c.pc = "writing"
                      /\ c.calls = 1
                      /\ Len(c.queueItems) = batchSize
                      /\ SubSeq(c.queueItems, 1, batchSize - 1) = queue[t]
                      /\ c.queueItems[batchSize].id = nextId
        /\ (ended'.result = "ok" /\ ended'.cycle.trigger = "threshold")
             => queue' = queue
      ]_vars

\* a threshold flush of batchSize = 2 items has succeeded and the queue is empty
C9_Witness ==
    /\ ended.result = "ok"
    /\ ended.cycle.trigger = "threshold"
    /\ ended.cycle.errs = <<>>
    /\ batchSize = 2
    /\ Len(ended.cycle.taken) = batchSize
    /\ queue[ended.cycle.table] = <<>>

\* C10: with a store that never fails and the timer running, a tick that
\* starts a sweep while every queue is below batchSize takes every queued
\* item into a flush of that sweep, every queued item is eventually
\* written, and the set of pending items eventually becomes empty.
C10_SweepWritesAll ==
    /\ [][ (/\ ~isIntervalFlushInProgress
            /\ isIntervalFlushInProgress'
            /\ \A t \in TableName : Len(queue[t]) < batchSize)
           => \A t \in TableName :
                 /\ queue'[t] = <<>>
                 /\ queue[t] # <<>> =>
                       \E c \in cycles' \ cycles :
                           /\ c.table = t
                           /\ c.trigger = "interval"
                           /\ c.queueItems = queue[t]
         ]_vars
    /\ \A i \in 1..HealthyItems :
          (i \in QueuedIds) ~> (i \in DOMAIN acks /\ acks[i] = 1)
    /\ (QueuedIds \cup InFlightIds # {}) ~> (QueuedIds \cup InFlightIds = {})

\* a sweep that took items of both tables has ended and nothing is pending
C10_Witness ==
    /\ ended.result = "ok"
    /\ ended.cycle.trigger = "interval"
    /\ ~isIntervalFlushInProgress
    /\ QueuedIds \cup InFlightIds = {}
    /\ \E i, j \in DOMAIN acks : i # j /\ acks[i] = 1 /\ acks[j] = 1
    /\ batchSize = 2

\* The items that are in a queue or in the batch of a running flush.
Range(items) == {items[i] : i \in DOMAIN items}

PendingItems(q, cs) ==
    UNION {Range(q[t]) : t \in TableName} \cup UNION {Range(c.queueItems) : c \in cs}

\* No item has a smaller value of attempts in (q2, cs2) than in (q1, cs1).
AttemptsNotLower(q1, cs1, q2, cs2) ==
    \A x \in PendingItems(q1, cs1), y \in PendingItems(q2, cs2) :
        x.id = y.id => y.attempts >= x.attempts

\* C11 (as claimed): an item is dropped exactly when its attempts has
\* reached maxAttempts: no item below maxAttempts is dropped, no dropped item
\* was written, and no item whose attempts has reached maxAttempts is written.
C11_DroppedExactlyAtMax ==
    /\ \A i \in dropped : acks[i] = 0
    /\ ended.result = "failed" =>
          \A item \in Range(ended.cycle.queueItems) :
              item.id \in dropped <=> item.attempts = maxAttempts
    /\ ended.result = "ok" =>
          \A item \in Range(ended.cycle.queueItems) : item.attempts < maxAttempts

\* C11 (amended): attempts of an item never decreases and stays within
\* 1..maxAttempts; an item is dropped only by the catch block of a failed
\* cycle, and exactly those items of the failed batch whose attempts equals
\* maxAttempts are dropped; no successful write call ever carried a dropped
\* item.  (An item whose attempts equals maxAttempts is written when the
\* cycle that holds it succeeds.)
C11_DropOnlyAtMax ==
    /\ [][ /\ AttemptsNotLower(queue, cycles, queue', cycles')
           /\ dropped' # dropped =>
                 /\ ended'.result = "failed"
                 /\ dropped' \ dropped =
                       {item.id : item \in {x \in Range(ended'.cycle.queueItems) :
                                                x.attempts = maxAttempts}}
         ]_vars
    /\ [](\A item \in PendingItems(queue, cycles) : item.attempts \in 1..maxAttempts)
    /\ [](ended.result = "failed" =>
            \A item \in Range(ended.cycle.queueItems) :
                item.id \in dropped <=> item.attempts = maxAttempts)
    /\ [](\A i \in dropped : acks[i] = 0)

\* a failed cycle has ended with one item on its last attempt, now dropped,
\* and one below it, now back in the queue
C11_Witness ==
    /\ ended.result = "failed"
    /\ \E x, y \in Range(ended.cycle.queueItems) :
          /\ x.attempts = maxAttempts
          /\ x.id \in dropped
          /\ y.attempts < maxAttempts
          /\ y.id \in QueuedIds
          /\ y.id \notin dropped

\* C12: when a flush cycle ends in the catch block, every item of its batch
\* with attempts < maxAttempts is at the back of its table's queue, in batch
\* order, with attempts + 1 and is not dropped; every other item of the batch
\* is dropped, is in no queue and no batch, and has added exactly 1 to the
\* drop counter.  The drop counter equals the number of dropped items.
C12_RequeueOrDrop ==
    /\ dropCounter = Cardinality(dropped)
    /\ ended.result = "failed" =>
          LET c == ended.cycle
              q == queue[c.table]
              Below(x) == x.attempts < maxAttempts
              kept == SelectSeq(c.queueItems, Below)
              gone == {x \in Range(c.queueItems) : ~Below(x)}
          IN /\ Len(q) >= Len(ended.queueBefore) + Len(kept)
             /\ SubSeq(q, Len(q) - Len(kept) + 1, Len(q)) =
                   [i \in DOMAIN kept |->
                       [kept[i] EXCEPT !.attempts = @ + 1, !.fails = @ + 1]]
             /\ \A x \in Range(kept) : x.id \notin dropped
             /\ \A x \in gone :
                   /\ x.id \in dropped
                   /\ x.id \notin QueuedIds \cup InFlightIds
             /\ dropCounter = ended.dropsBefore + Cardinality(gone)

\* a failed cycle has put its item back behind an item that was waiting
C12_Witness ==
    /\ ended.result = "failed"
    /\ ended.queueBefore # <<>>
    /\ Len(ended.cycle.queueItems) = 1
    /\ LET q == queue[ended.cycle.table] IN
          /\ Len(q) = Len(ended.queueBefore) + 1
          /\ q[Len(q)].id = ended.cycle.queueItems[1].id
          /\ q[Len(q)].attempts = ended.cycle.queueItems[1].attempts + 1
          /\ q[1].id # q[Len(q)].id

\* C13: the value of attempts of an item changes only in the step that ends
\* a failed cycle holding the item, which puts it behind what the queue held
\* with attempts + 1; a failed attempt that is retried, a truncation, the
\* front-requeue of a split-off remainder and the next write call all leave
\* every item's attempts as it was.
C13_AttemptsOnlyByRequeue ==
    [][ /\ \A x \in PendingItems(queue, cycles), y \in PendingItems(queue', cycles') :
             (x.id = y.id /\ y.attempts # x.attempts) =>
                 /\ ended'.result = "failed"
                 /\ x.id \in IdsOf(ended'.cycle.queueItems)
                 /\ y.attempts = x.attempts + 1
                 /\ \E j \in DOMAIN queue'[ended'.cycle.table] :
                       /\ j > Len(ended'.queueBefore)
                       /\ queue'[ended'.cycle.table][j] = y
        /\ ended'.result # "failed" =>
              \A x \in PendingItems(queue, cycles), y \in PendingItems(queue', cycles') :
                  x.id = y.id => y.attempts = x.attempts
      ]_vars

\* a batch of two has been split and its kept half retried, the split-off
\* item waiting at the front of the queue, both with the attempts they were
\* taken with
C13_Witness ==
    \E c \in cycles :
        /\ Len(c.taken) = 2
        /\ Len(c.queueItems) = 1
        /\ c.calls >= 2
        /\ queue[c.table] # <<>>
        /\ queue[c.table][1].id = c.taken[2].id
        /\ queue[c.table][1].attempts = c.taken[2].attempts
        /\ c.queueItems[1].attempts = c.taken[1].attempts

\* What the step added to a log, and the last error of a cycle.
Added(before, after) == SubSeq(after, Len(before) + 1, Len(after))

LastError(c) == c.errs[Len(c.errs)]

\* The cycles that failed an attempt in the step to the primed state.
FailedIn(cs, e) == cs \cup (IF e.result = "failed" THEN {e.cycle} ELSE {})

C15_EnqueueAppends ==
    /\ [](\A t \in TableName, data \in Payloads : ENABLED AddToQueue(t, data))
    /\ [][ nextId' # nextId =>
             /\ nextId' = nextId + 1
             /\ \E t \in TableName, data \in Payloads :
                   LET item == [id |-> nextId, attempts |-> 1, data |-> data, fails |-> 0]
                       started == cycles' \ {d \in cycles' : \E c \in cycles : c.taken = d.taken}
                       batch == IF started = {} THEN <<>>
                                ELSE (CHOOSE c \in started : TRUE).queueItems
                   IN /\ PendingItems(queue', cycles') = PendingItems(queue, cycles) \cup {item}
                      /\ item \notin PendingItems(queue, cycles)
                      /\ Cardinality(started) <= 1
                      /\ batch \o queue'[t] = Append(queue[t], item)
                      /\ \A u \in TableName \ {t} : queue'[u] = queue[u]
                      /\ \A c \in cycles : \E d \in cycles' : d.queueItems = c.queueItems
                      /\ dropped' = dropped /\ dropCounter' = dropCounter
         ]_vars

\* an item has been enqueued, at the tail of its queue, while a flush of the
\* same table is between two attempts after a failure and after shutdown()
C15_Witness ==
    \E t \in TableName :
        /\ queue[t] # <<>>
        /\ queue[t][Len(queue[t])].id = nextId - 1
        /\ queue[t][Len(queue[t])].attempts = 1
        /\ \E c \in cycles : c.table = t /\ c.errs # <<>> /\ c.pc = "delay"
        /\ shut.pc # "idle"
        /\ ended.result = "none"

\* The running flushes an interval sweep started.
IntervalCycles(cs) == {c \in cs : c.trigger = "interval"}

\* C16: isIntervalFlushInProgress is set exactly while a flush started by an
\* interval sweep is running; the running interval flushes are at most one
\* per table; no step taken while the flag is set gives a table one more
\* interval flush (a timer tick then starts none); and the flag is cleared
\* only by the step that ends the last running flush of the sweep, with a
\* success or with a failure.
C16_OneSweep ==
    /\ [](isIntervalFlushInProgress <=> IntervalCycles(cycles) # {})
    /\ [](\A c, d \in IntervalCycles(cycles) : c.table = d.table => c = d)
    /\ [][ /\ isIntervalFlushInProgress =>
                 \A t \in TableName :
                     Cardinality({c \in IntervalCycles(cycles') : c.table = t})
                         <= Cardinality({c \in IntervalCycles(cycles) : c.table = t})
           /\ (isIntervalFlushInProgress /\ ~isIntervalFlushInProgress') =>
                 /\ ended'.result \in {"ok", "failed"}
                 /\ ended'.cycle.trigger = "interval"
                 /\ IntervalCycles(cycles') = {}
         ]_vars

\* one flush of a sweep over both tables has failed and ended, the other is
\* still running and the flag is still set
C16_Witness ==
    /\ isIntervalFlushInProgress
    /\ ended.result = "failed"
    /\ ended.cycle.trigger = "interval"
    /\ \E c \in cycles : c.trigger = "interval" /\ c.table # ended.cycle.table

\* A running flush without the record of what other handlers did meanwhile.
Progress(c) == [c EXCEPT !.alone = TRUE]

\* C17: flushAll starts a flush for every table whose queue is not empty in
\* one step; the step that ends a failed flush leaves every other running
\* flush where it was (same batch, same attempt, same position) and leaves
\* the queues of the other tables as they were; and the flushAll of
\* shutdown() is over (shutdown() returns) only when no flush it started is
\* running, the flushAll of a sweep (the flag is cleared) likewise.
C17_FlushAllIsolates ==
    /\ [](shut.pc = "draining" <=> \E c \in cycles : c.trigger = "shutdown")
    /\ [](isIntervalFlushInProgress => \E c \in cycles : c.trigger = "interval")
    /\ [][ /\ \A trigger \in {"interval", "shutdown"} :
                 (\E c \in cycles' : c.trigger = trigger /\ c.calls = 1 /\ c.errs = <<>>
                                     /\ \A d \in cycles : d.taken # c.taken) =>
                     \A t \in TableName :
                         queue[t] # <<>> =>
                             \E c \in cycles' : /\ c.table = t
                                                /\ c.trigger = trigger
                                                /\ IdSeq(c.taken) = Added(takes[t], takes'[t])
           /\ ended'.result = "failed" =>
                 /\ \A d \in cycles :
                       IdsOf(d.taken) # IdsOf(ended'.cycle.taken) =>
                           \E e \in cycles' : Progress(e) = Progress(d)
                 /\ \A t \in TableName \ {ended'.cycle.table} : queue'[t] = queue[t]
         ]_vars

\* shutdown() has returned after the flush of one table succeeded although
\* the flush of the other table, started by the same flushAll, had failed
C17_Witness ==
    /\ ShutdownJustReturned
    /\ ended.result = "ok"
    /\ ended.cycle.errs = <<>>
    /\ ~shut.clean
    /\ \E t \in TableName \ {ended.cycle.table} :
          /\ shut.queued[t] # <<>>
          /\ \A i \in IdsOf(shut.queued[t]) : i \in QueuedIds \cup dropped

\* C18: once shutdown() has been called the timer is gone and no step
\* starts an interval flush; the call itself leaves every running flush as
\* it was; and afterwards, as before, a running flush can always take its
\* next step and leaves the set of running flushes only by ending, with its
\* batch written (acknowledged) or each item of it requeued or dropped.
C18_ShutdownKeepsInFlight ==
    /\ [](shut.pc # "idle" => ~intervalId)
    /\ [](\A c \in cycles :
            ENABLED (\/ WriteSucceeds(c)
                     \/ \E error \in Errors : WriteFails(c, error, 1)
                     \/ WriteAgain(c)))
    /\ [][ /\ shut'.pc # "idle" =>
                 \A c \in IntervalCycles(cycles') :
                     \E d \in IntervalCycles(cycles) : d.taken = c.taken
           /\ (shut.pc = "idle" /\ shut'.pc # "idle") =>
                 /\ \A c \in cycles : \E d \in cycles' : Progress(d) = Progress(c)
                 /\ shut'.inflight = InFlightIds
           /\ \A c \in cycles :
                 (\A d \in cycles' : d.taken # c.taken) =>
                     /\ ended'.result \in {"ok", "failed"}
                     /\ ended'.cycle.taken = c.taken
                     /\ \A x \in Range(ended'.cycle.queueItems) :
                           IF ended'.result = "ok" THEN acks'[x.id] = 1
                           ELSE x.id \in IdsOf(queue'[c.table]) \/ x.id \in dropped'
         ]_vars

\* a flush that was in flight when shutdown() was called has ended after it,
\* after a retry
C18_Witness ==
    /\ shut.pc # "idle"
    /\ ended.result \in {"ok", "failed"}
    /\ ended.cycle.trigger # "shutdown"
    /\ IdsOf(ended.cycle.taken) \cap shut.inflight # {}
    /\ ended.cycle.calls >= 2

\* C19: a flush cycle never makes more than numOfAttempts write calls,
\* whatever the store answers; when it ends it has made at most that many,
\* and its batch is acknowledged (success) or each item of it is back in the
\* queue or dropped (failure); and every item that is in the batch of a
\* running flush eventually is in no batch.
C19_CycleTerminates ==
    /\ [](\A c \in cycles :
            /\ c.calls <= numOfAttempts
            /\ Len(c.errs) < numOfAttempts
            /\ c.calls \in {Len(c.errs), Len(c.errs) + 1})
    /\ [](ended.result \in {"ok", "failed"} =>
            LET c == ended.cycle IN
            /\ c.calls <= numOfAttempts
            /\ c \notin cycles
            /\ IdsOf(c.queueItems) \cap InFlightIds = {}
            /\ \A x \in Range(c.queueItems) :
                  IF ended.result = "ok" THEN acks[x.id] = 1
                  ELSE x.id \in QueuedIds \/ x.id \in dropped)
    /\ \A i \in 1..MaxItems : (i \in InFlightIds) ~> (i \notin InFlightIds)

\* a cycle whose every write call threw a retryable error has ended at the
\* cap, after numOfAttempts = 2 calls
C19_Witness ==
    /\ ended.result = "failed"
    /\ numOfAttempts = 2
    /\ ended.cycle.calls = numOfAttempts
    /\ AllRetryable(ended.cycle)
    /\ Len(ended.cycle.errs) = 2

\* An error whose message has none of the known signatures: not the
\* retryable phrase, not the string-length phrase, not all three phrases of
\* a size error.
NoKnownSignature(error) ==
    /\ HangUp \notin error
    /\ StrLen \notin error
    /\ ~({SizeA, SizeB, SizeC} \subseteq error)

\* C20: a write call that throws an error with no known signature ends the
\* cycle in the same step, also when attempts remain: no running cycle has
\* such an error behind it, no write call follows it, the retry callback
\* leaves the batch as it was (no split, no truncation), and every item of
\* the batch is requeued behind the queue with attempts + 1 or dropped.
C20_UnknownIsFatal ==
    /\ [](\A c \in cycles : \A i \in DOMAIN c.errs : ~NoKnownSignature(c.errs[i]))
    /\ [][ (ended'.result = "failed" /\ NoKnownSignature(LastError(ended'.cycle))) =>
             LET e == ended'.cycle IN
             /\ e.calls = Len(e.errs)
             /\ \A i \in 1..(Len(e.errs) - 1) : ~NoKnownSignature(e.errs[i])
             /\ \E c \in cycles :
                   /\ c.pc = "writing"
                   /\ c.taken = e.taken
                   /\ e.queueItems = c.queueItems
                   /\ e.truncs = c.truncs
                   /\ e.calls = c.calls
                   /\ e.errs = Append(c.errs, LastError(e))
             /\ IdsOf(queue'[e.table]) \cap IdsOf(e.queueItems) =
                   {x.id : x \in {y \in Range(e.queueItems) : y.attempts < maxAttempts}}
             /\ dropped' \ dropped =
                   {x.id : x \in {y \in Range(e.queueItems) : y.attempts >= maxAttempts}}
             /\ SubSeq(queue'[e.table], 1, Len(queue[e.table])) = queue[e.table]
         ]_vars

\* the first write call of a cycle threw an error with two of the three
\* size phrases: the cycle ended after that one call though a second
\* attempt was left, and its item is back in the queue
C20_Witness ==
    /\ ended.result = "failed"
    /\ ended.cycle.errs = <<{SizeA, SizeB}>>
    /\ ended.cycle.calls = 1
    /\ numOfAttempts = 2
    /\ IdsOf(ended.cycle.queueItems) \subseteq QueuedIds

\* C21: in one flush cycle truncateOversizedRecord runs at most once over
\* the batch, whatever errors the store answers with (string-length errors
\* on a single-item batch and size errors mixed included).
C21_TruncateOncePerCycle ==
    /\ \A c \in cycles : c.truncs <= 1
    /\ ended.result \in {"ok", "failed"} => ended.cycle.truncs <= 1

\* What the claim says truncation makes of a field: the first 500 KiB and
\* the 38 characters of the marker when it is longer than 1 MiB, the field
\* itself otherwise.
ClaimedField(v) ==
    IF v.len > 1024 * 1024 THEN [len |-> 500 * 1024 + 38, marked |-> TRUE] ELSE v

ClaimedRecord(d) ==
    [input |-> ClaimedField(d.input), output |-> ClaimedField(d.output),
     metadata |-> [k \in DOMAIN d.metadata |-> ClaimedField(d.metadata[k])]]

\* C22: a record the retry callback has truncated (once or more often in
\* the cycle) has every size-sensitive field that was longer than 1 MiB
\* replaced by its first 500 KiB and the marker and every other field as it
\* was, so every field is at most 1 MiB long; truncating it again changes
\* nothing; and a record no truncation has run over is as it was taken.
C22_TruncationRule ==
    LET Holds(c) ==
            LET o == c.taken[1].data
                d == c.queueItems[1].data
            IN /\ c.truncs = 0 => d = o
               /\ c.truncs >= 1 =>
                     /\ d = ClaimedRecord(o)
                     /\ FieldsWithin(d)
                     /\ truncateOversizedRecord(d) = d
    IN /\ \A c \in cycles : Holds(c)
       /\ ended.result \in {"ok", "failed"} => Holds(ended.cycle)
       /\ \A x \in PendingItems(queue, cycles) :
             /\ truncateOversizedRecord(x.data) = ClaimedRecord(x.data)
             /\ truncateOversizedRecord(truncateOversizedRecord(x.data))
                   = truncateOversizedRecord(x.data)

\* a record with its input far over the limit, its output just over it and
\* a metadata value exactly at it has been truncated twice in one cycle
C22_Witness ==
    /\ ended.result \in {"ok", "failed"}
    /\ ended.cycle.truncs = 2
    /\ ended.cycle.taken[1].data =
          [input |-> Str(2 * maxFieldSize), output |-> Str(maxFieldSize + 1),
           metadata |-> <<Str(maxFieldSize)>>]
    /\ ended.cycle.queueItems[1].data.input.marked
    /\ ended.cycle.queueItems[1].data.output.marked
    /\ ended.cycle.queueItems[1].data.metadata = <<Str(maxFieldSize)>>

\* The cycle c as the step to the primed state left it after a failed write
\* call: still running (first argument) or ended in the catch block.
AfterAttempt(c, cs, e) ==
    {d \in FailedIn(cs, e) : d.taken = c.taken /\ Len(d.errs) = Len(c.errs) + 1}

\* C23: when a write call of a batch of n > 1 items throws a string-length
\* error, the batch of the cycle becomes its first n \div 2 items, in order;
\* the other n - n \div 2 items, in order, are in front of what the table's
\* queue held, in the same step; and when the cycle goes on, its next write
\* call carries the retained items only.
C23_SplitByIndex ==
    /\ [][ \A c \in cycles : \A d \in AfterAttempt(c, cycles', ended') :
             (c.pc = "writing" /\ Len(c.queueItems) > 1 /\ OnlyStringLength(LastError(d))) =>
                 LET n == Len(c.queueItems)
                     q == queue[c.table]
                     new == queue'[c.table]
                 IN /\ d.queueItems = SubSeq(c.queueItems, 1, n \div 2)
                    /\ Len(new) >= (n - n \div 2) + Len(q)
                    /\ SubSeq(new, 1, n - n \div 2) = SubSeq(c.queueItems, n \div 2 + 1, n)
                    /\ SubSeq(new, n - n \div 2 + 1, n - n \div 2 + Len(q)) = q
                    /\ d \in cycles' => d.pc = "delay" /\ d.calls = c.calls
         ]_vars
    /\ [][ \A c \in cycles : c.pc = "delay" =>
             \A d \in cycles' :
                 (d.taken = c.taken /\ d.pc = "writing") =>
                     d.queueItems = c.queueItems /\ d.calls = c.calls + 1
         ]_vars

\* a batch of three has been split into one retained item and two at the
\* front of the queue, and the retained item has been sent again
C23_Witness ==
    \E c \in cycles :
        /\ Len(c.taken) = 3
        /\ c.errs # <<>>
        /\ AllStringLength(c)
        /\ c.queueItems = SubSeq(c.taken, 1, 1)
        /\ c.pc = "writing"
        /\ c.calls = 2
        /\ Len(queue[c.table]) >= 2
        /\ SubSeq(queue[c.table], 1, 2) = SubSeq(c.taken, 2, 3)

\* C24: when a write call of a batch of exactly one item throws a
\* string-length error, the batch of the cycle still is that one item (same
\* identity, same attempts), with its size-sensitive fields truncated; the
\* retry callback puts nothing in the queue; and when the cycle goes on, its
\* next write call carries that item.
C24_SingleItemTruncated ==
    [][ \A c \in cycles : \A d \in AfterAttempt(c, cycles', ended') :
           (c.pc = "writing" /\ Len(c.queueItems) = 1 /\ OnlyStringLength(LastError(d))) =>
               LET x == c.queueItems[1] IN
               /\ Len(d.queueItems) = 1
               /\ d.queueItems[1].id = x.id
               /\ d.queueItems[1].attempts = x.attempts
               /\ d.queueItems[1].data = ClaimedRecord(x.data)
               /\ d.truncs = c.truncs + 1
               /\ d \in cycles' =>
                     /\ queue'[c.table] = queue[c.table]
                     /\ d.pc = "delay"
               /\ d \notin cycles' =>
                     /\ SubSeq(queue'[c.table], 1, Len(queue[c.table])) = queue[c.table]
                     /\ Len(queue'[c.table]) <= Len(queue[c.table]) + 1
      ]_vars

\* a single-item batch has been truncated after a string-length error and
\* sent again, the queue of its table holding another item
C24_Witness ==
    \E c \in cycles :
        /\ Len(c.taken) = 1
        /\ Len(c.errs) = 1
        /\ AllStringLength(c)
        /\ c.pc = "writing"
        /\ c.calls = 2
        /\ c.queueItems[1].data = ClaimedRecord(c.taken[1].data)
        /\ c.queueItems[1].data # c.taken[1].data
        /\ queue[c.table] # <<>>

\* C25: when a write call throws a retryable error, the batch of the cycle
\* is what it was: the same items in the same order with the same payloads
\* and attempts, and no truncation has run; when the cycle goes on, the
\* step changes no queue and the next write call carries that batch; no
\* item of the batch is in the table's queue while the cycle runs.
C25_RetryableLeavesAll ==
    /\ [][ \A c \in cycles : \A d \in AfterAttempt(c, cycles', ended') :
             (c.pc = "writing" /\ OnlyRetryable(LastError(d))) =>
                 /\ d.queueItems = c.queueItems
                 /\ d.truncs = c.truncs
                 /\ d.hasBeenTruncated = c.hasBeenTruncated
                 /\ d \in cycles' =>
                       /\ queue' = queue
                       /\ dropped' = dropped
                       /\ d.pc = "delay"
                       /\ IdsOf(d.queueItems) \cap QueuedIds' = {}
         ]_vars
    /\ [][ \A c \in cycles :
             (c.pc = "delay" /\ OnlyRetryable(LastError(c))) =>
                 \A d \in cycles' :
                     (d.taken = c.taken /\ d.pc = "writing") =>
                         d.queueItems = c.queueItems /\ queue' = queue
         ]_vars

\* a batch of two is being sent again after a retryable error while its
\* table's queue is empty
C25_Witness ==
    \E c \in cycles :
        /\ Len(c.taken) = 2
        /\ c.errs = <<{HangUp}>>
        /\ c.pc = "writing"
        /\ c.calls = 2
        /\ c.queueItems = c.taken
        /\ queue[c.table] = <<>>

\* C26 (as claimed): while the interval flush of a table waits between two
\* attempts and another table has items queued, a timer tick can start a
\* flush for that table.
C26_TickStartsOther ==
    \A c \in cycles :
        (/\ c.trigger = "interval"
         /\ c.pc = "delay"
         /\ intervalId
         /\ \E t \in TableName \ {c.table} : queue[t] # <<>>)
        => ENABLED Tick

\* C26 (amended): while the interval flush of a table waits between two
\* attempts, every other running flush can take its next step, addToQueue
\* can be called for every table and starts a threshold flush when its push
\* fills a queue, and shutdown() can be called; but a timer tick starts no
\* flush for any table until the sweep has ended.
C26_DelayBlocksOnlyTicks ==
    /\ [](\A c \in cycles :
            (c.trigger = "interval" /\ c.pc = "delay") =>
                /\ ~ENABLED Tick
                /\ \A d \in cycles \ {c} :
                      ENABLED (WriteSucceeds(d) \/ WriteAgain(d))
                /\ \A t \in TableName, data \in Payloads : ENABLED AddToQueue(t, data)
                /\ shut.pc = "idle" => ENABLED Shutdown)
    /\ [][ \A c \in cycles :
             (c.trigger = "interval" /\ c.pc = "delay") =>
                 \A t \in TableName :
                     /\ (enqueued'[t] # enqueued[t] /\ Len(queue[t]) + 1 >= batchSize) =>
                           \E d \in cycles' :
                               /\ d.table = t
                               /\ d.trigger = "threshold"
                               /\ d.calls = 1
                               /\ Added(takes[t], takes'[t]) = IdSeq(d.taken)
                     /\ takes'[t] # takes[t] =>
                           \A d \in cycles' :
                               Added(takes[t], takes'[t]) = IdSeq(d.taken) =>
                                   d.trigger # "interval"
         ]_vars

\* the interval flush of one table waits between two attempts while a
\* threshold flush of the other table, with an item enqueued later, makes
\* its first write call and the timer is still installed
C26_Witness ==
    \E c, d \in cycles :
        /\ c.trigger = "interval"
        /\ c.pc = "delay"
        /\ d.table # c.table
        /\ d.trigger = "threshold"
        /\ d.pc = "writing"
        /\ d.calls = 1
        /\ d.taken[1].id > c.taken[1].id
        /\ intervalId
        /\ isIntervalFlushInProgress

\* C27: while an interval flush of a table is running, an addToQueue call
\* for that table whose push brings the queue to batchSize items or more
\* starts a threshold flush in the same step, the flag being set or not:
\* after the step the table has the interval flush and a new threshold
\* flush, its first write call made.
C27_ThresholdNotGated ==
    [][ \A t \in TableName :
           (/\ enqueued'[t] # enqueued[t]
            /\ Len(queue[t]) + 1 >= batchSize
            /\ \E c \in cycles : c.table = t /\ c.trigger = "interval")
           => /\ isIntervalFlushInProgress
              /\ isIntervalFlushInProgress'
              /\ \E c, d \in cycles' :
                    /\ c.table = t
                    /\ c.trigger = "interval"
                    /\ d.table = t
                    /\ d.trigger = "threshold"
                    /\ d.pc = "writing"
                    /\ d.calls = 1
                    /\ d.errs = <<>>
                    /\ IdSeq(d.taken) = Added(takes[t], takes'[t])
                    /\ Len(d.taken) = Min(batchSize, Len(queue[t]) + 1)
      ]_vars

\* two write calls for the same table are in progress, one of an interval
\* flush and one of a threshold flush, while the flag is set
C27_Witness ==
    /\ isIntervalFlushInProgress
    /\ \E c, d \in cycles :
          /\ c.table = d.table
          /\ c.trigger = "interval"
          /\ c.pc = "writing"
          /\ d.trigger = "threshold"
          /\ d.pc = "writing"
          /\ IdsOf(c.queueItems) \cap IdsOf(d.queueItems) = {}

\* C28: when a cycle that ran a truncation ends in the catch block, every
\* item it puts back in the queue carries the payload it was taken with.
C28_RequeuedUntruncated ==
    (ended.result = "failed" /\ ended.cycle.truncs >= 1) =>
        \A x \in Range(queue[ended.cycle.table]) :
            \A i \in DOMAIN ended.cycle.taken :
                x.id = ended.cycle.taken[i].id => x.data = ended.cycle.taken[i].data

\* The flushes the step to the primed state started for table t.
Started(t, cs, cs2) == {d \in cs2 : d.table = t /\ \A c \in cs : c.taken # d.taken}

\* C29: a flush of a table whose queue is empty starts no cycle and makes no
\* write call; a flush of a table whose queue (with the item just pushed)
\* holds m > 0 items takes its first min(m, batchSize) items when it is an
\* interval or threshold flush and all m when it is the flush of
\* shutdown(), leaving the others; no batch of an interval or threshold
\* flush is longer than batchSize and no batch is empty.
C29_TakeBatch ==
    /\ [](\A c \in cycles :
            /\ c.queueItems # <<>>
            /\ c.trigger \in {"interval", "threshold"} => Len(c.queueItems) <= batchSize)
    /\ [][ \A t \in TableName :
             LET pool == IdSeq(queue[t]) \o Added(enqueued[t], enqueued'[t])
                 taken == Added(takes[t], takes'[t])
                 new == Started(t, cycles, cycles')
             IN /\ pool = <<>> => (taken = <<>> /\ new = {})
                /\ taken = <<>> => new = {}
                /\ \A d \in new :
                      /\ Cardinality(new) = 1
                      /\ IdSeq(d.queueItems) = taken
                      /\ d.calls = 1
                      /\ Len(taken) = (IF d.trigger = "shutdown" THEN Len(pool)
                                       ELSE Min(Len(pool), batchSize))
                      /\ taken = SubSeq(pool, 1, Len(taken))
                      /\ Len(queue'[t]) >= Len(pool) - Len(taken)
                /\ (shut.pc = "idle" /\ shut'.pc # "idle" /\ pool # <<>>) =>
                      \E d \in new : d.trigger = "shutdown"
                /\ (~isIntervalFlushInProgress /\ isIntervalFlushInProgress' /\ pool # <<>>) =>
                      \E d \in new : d.trigger = "interval"
         ]_vars

\* an interval flush has just taken batchSize items of a queue that held
\* more and has left the others
C29_Witness ==
    \E c \in cycles :
        /\ c.trigger = "interval"
        /\ c.calls = 1
        /\ c.pc = "writing"
        /\ c.errs = <<>>
        /\ c.alone
        /\ Len(c.taken) = batchSize
        /\ queue[c.table] # <<>>

\* C30: every item addToQueue was given is in exactly one place: in the
\* queue of the table it was given for (once), in the batch of one running
\* flush of that table (once), acknowledged by a successful write call, or
\* dropped; and every dropped item has been counted.
C30_Conservation ==
    /\ DOMAIN acks = 1..(nextId - 1)
    /\ \A t \in TableName : \A k \in DOMAIN enqueued[t] :
          LET i == enqueued[t][k]
              inQueue == Cardinality({j \in DOMAIN queue[t] : queue[t][j].id = i})
              inFlight == Cardinality({<<c, j>> \in cycles \X (1..nextId) :
                                          /\ c.table = t
                                          /\ j \in DOMAIN c.queueItems
                                          /\ c.queueItems[j].id = i})
              written == IF acks[i] >= 1 THEN 1 ELSE 0
              lost == IF i \in dropped THEN 1 ELSE 0
          IN inQueue + inFlight + written + lost = 1
    /\ \A i \in 1..(nextId - 1) : \E t \in TableName : \E k \in DOMAIN enqueued[t] : enqueued[t][k] = i
    /\ QueuedIds \cup InFlightIds \cup dropped \subseteq 1..(nextId - 1)
    /\ \A t, u \in TableName : t # u =>
          /\ IdsOf(queue[t]) \cap Range(enqueued[u]) = {}
          /\ \A c \in cycles : c.table = t => IdsOf(c.queueItems) \cap Range(enqueued[u]) = {}
    /\ dropCounter = Cardinality(dropped)

\* of two items enqueued one has been dropped and the other written, and
\* nothing is queued or in flight
C30_Witness ==
    /\ nextId = 3
    /\ \E i, j \in 1..2 : i \in dropped /\ acks[j] = 1 /\ i # j
    /\ QueuedIds \cup InFlightIds = {}

\* C31: with maxAttempts >= 1, every item in a queue or in the batch of a
\* running flush has 1 <= attempts <= maxAttempts; the catch block puts back
\* only items whose attempts was below maxAttempts, with attempts + 1, and
\* puts back no item whose attempts had reached it.
C31_AttemptsInRange ==
    /\ maxAttempts >= 1
    /\ \A t \in TableName : \A i \in DOMAIN queue[t] :
          1 <= queue[t][i].attempts /\ queue[t][i].attempts <= maxAttempts
    /\ \A c \in cycles : \A i \in DOMAIN c.queueItems :
          1 <= c.queueItems[i].attempts /\ c.queueItems[i].attempts <= maxAttempts
    /\ ended.result = "failed" =>
          \A x \in Range(ended.cycle.queueItems) :
              /\ x.attempts <= maxAttempts
              /\ \A y \in Range(queue[ended.cycle.table]) :
                    y.id = x.id =>
                        /\ x.attempts < maxAttempts
                        /\ y.attempts = x.attempts + 1
              /\ x.attempts = maxAttempts => x.id \notin QueuedIds

\* a failed cycle has just put an item back with attempts = maxAttempts = 2
\* while the other item of its batch, already at maxAttempts, was not put back
C31_Witness ==
    /\ ended.result = "failed"
    /\ maxAttempts = 2
    /\ \E x, z \in Range(ended.cycle.queueItems) :
          /\ x.attempts = 1
          /\ \E y \in Range(queue[ended.cycle.table]) :
                y.id = x.id /\ y.attempts = maxAttempts
          /\ z.attempts = maxAttempts
          /\ z.id \notin QueuedIds

\* C32: the batch of a running flush is never empty: the batch a flush takes
\* has at least one item; a string-length error on a batch of n >= 2 items
\* leaves the batch with its first n \div 2 >= 1 items, on a batch of one
\* item with that item; no other error changes the number of items; so no
\* write call is made with zero records, and the catch block of a cycle
\* that ends has at least one item to requeue or drop.
C32_BatchNeverEmpty ==
    /\ [](\A c \in cycles :
            /\ Len(c.taken) >= 1
            /\ Len(c.queueItems) >= 1
            /\ Len(c.queueItems) <= Len(c.taken))
    /\ [](ended.result \in {"ok", "failed"} => Len(ended.cycle.queueItems) >= 1)
    /\ [][ \A c \in cycles : \A d \in AfterAttempt(c, cycles', ended') :
             LET n == Len(c.queueItems) IN
             IF OnlyStringLength(LastError(d)) /\ n >= 2
             THEN Len(d.queueItems) = n \div 2 /\ n \div 2 >= 1
             ELSE Len(d.queueItems) = n
         ]_vars

\* a batch of two was split by a string-length error, and the single item
\* retained has been kept through a second string-length error
C32_Witness ==
    /\ ended.result = "failed"
    /\ Len(ended.cycle.taken) = 2
    /\ Len(ended.cycle.errs) = 2
    /\ AllStringLength(ended.cycle)
    /\ Len(ended.cycle.queueItems) = 1
    /\ ended.cycle.queueItems[1].id = ended.cycle.taken[1].id

\* C33: with a store that never fails, after every addToQueue call every
\* table's queue is shorter than batchSize (so it is in every state); the
\* call whose push brings the queue to batchSize items takes all of them
\* into a flush before it returns and leaves the queue empty.
C33_QueueBelowBatchSize ==
    /\ [](noFailure /\ \A t \in TableName : Len(queue[t]) < batchSize)
    /\ [][ \A t \in TableName :
             enqueued'[t] # enqueued[t] =>
                 /\ Len(queue'[t]) < batchSize
                 /\ Len(queue[t]) + 1 = batchSize =>
                       /\ queue'[t] = <<>>
                       /\ Len(Added(takes[t], takes'[t])) = batchSize
                 /\ Len(queue[t]) + 1 < batchSize =>
                       /\ Len(queue'[t]) = Len(queue[t]) + 1
                       /\ takes'[t] = takes[t]
         ]_vars

\* the second of two addToQueue calls for a table with batchSize = 2 has
\* just returned: the queue is empty and a threshold flush holds both items
C33_Witness ==
    /\ batchSize = 2
    /\ ended.result = "none"
    /\ \E t \in TableName :
          /\ Len(enqueued[t]) = 2
          /\ queue[t] = <<>>
          /\ \E c \in cycles :
                /\ c.table = t
                /\ c.trigger = "threshold"
                /\ IdSeq(c.queueItems) = enqueued[t]
                /\ c.pc = "writing"

\* C34: with the timer running and a store that throws at every write
\* call, whatever the errors, nothing is ever written; every cycle that
\* ends drops each item of its batch or puts it back with attempts + 1;
\* every item that is queued or in flight is eventually dropped and then in
\* no queue and no batch; and once the enqueues have stopped, eventually
\* every queue is empty and no flush is running, for good.
C34_AllEventuallyDropped ==
    /\ [](\A i \in DOMAIN acks : acks[i] = 0)
    /\ [][ ended'.result = "failed" =>
             \A x \in Range(ended'.cycle.queueItems) :
                 \/ x.id \in dropped' /\ x.id \notin QueuedIds'
                 \/ \E y \in Range(queue'[ended'.cycle.table]) :
                       y.id = x.id /\ y.attempts = x.attempts + 1
         ]_vars
    /\ \A i \in 1..FailingItems :
          (i \in QueuedIds \cup InFlightIds)
              ~> (i \in dropped /\ i \notin QueuedIds \cup InFlightIds)
    /\ <>[](/\ \A t \in TableName : queue[t] = <<>>
            /\ cycles = {}
            /\ dropped = 1..(nextId - 1))

\* two items, one of each table, have been dropped after maxAttempts = 2
\* failed cycles each, and every queue is empty
C34_Witness ==
    /\ maxAttempts = 2
    /\ nextId = 3
    /\ dropped = {1, 2}
    /\ \A t \in TableName : queue[t] = <<>> /\ Len(enqueued[t]) = 1
    /\ cycles = {}
    /\ intervalId
    /\ ended.result = "failed"
    /\ ended.cycle.queueItems[1].fails = 1

\* C35: as long as no other handler has changed the table's queue since a
\* cycle began, however often the cycle has split its batch, the batch is
\* the first items of the batch first taken, and all the items split off
\* are the front of the queue in the order they were taken in (the item
\* split off last, which stood earlier in the batch, before the items split
\* off first), each with the attempts it was taken with; this also holds
\* when the cycle has ended, with a success or in the catch block.
C35_SplitOffInOrder ==
    LET Holds(c) ==
            c.alone =>
                LET m == Len(c.queueItems)
                    n == Len(c.taken)
                    q == queue[c.table]
                IN /\ m <= n
                   /\ IdSeq(c.queueItems) = SubSeq(IdSeq(c.taken), 1, m)
                   /\ Len(q) >= n - m
                   /\ \A j \in 1..(n - m) :
                         /\ q[j].id = c.taken[m + j].id
                         /\ q[j].attempts = c.taken[m + j].attempts
    IN /\ \A c \in cycles : Holds(c)
       /\ ended.result \in {"ok", "failed"} => Holds(ended.cycle)

\* a cycle that took five items has ended after two splits (5 -> 2 -> 1):
\* the queue begins with the second, third, fourth and fifth item
C35_Witness ==
    /\ ended.result = "failed"
    /\ ended.cycle.alone
    /\ Len(ended.cycle.taken) = 5
    /\ Len(ended.cycle.errs) = 2
    /\ AllStringLength(ended.cycle)
    /\ Len(ended.cycle.queueItems) = 1
    /\ Len(queue[ended.cycle.table]) >= 4
    /\ IdSeq(SubSeq(queue[ended.cycle.table], 1, 4)) = SubSeq(IdSeq(ended.cycle.taken), 2, 5)

\* C36: when a write call throws, (1) an error with the retryable phrase is
\* retried with the batch, the payloads and the queue unchanged, whatever
\* other phrases it has; (2) an error with the string-length phrase and
\* without the retryable one is handled as a string-length error (split, or
\* truncation of a single item, the size-truncation flag untouched), also
\* when it has the three size phrases; (3) an error with the three size
\* phrases and neither of the others, thrown after a truncation has run in
\* the cycle, ends the cycle in that step with the batch as it was, also
\* when attempts remain.
C36_Precedence ==
    [][ \A c \in cycles : \A d \in AfterAttempt(c, cycles', ended') :
           LET e == LastError(d)
               n == Len(c.queueItems)
               size == {SizeA, SizeB, SizeC} \subseteq e
               retried == (d \in cycles' /\ d.pc = "delay")
           IN c.pc = "writing" =>
              /\ HangUp \in e =>
                    /\ d.queueItems = c.queueItems
                    /\ d.truncs = c.truncs
                    /\ d.hasBeenTruncated = c.hasBeenTruncated
                    /\ retried <=> Len(d.errs) < numOfAttempts
                    /\ retried => queue' = queue
              /\ (StrLen \in e /\ HangUp \notin e) =>
                    /\ d.hasBeenTruncated = c.hasBeenTruncated
                    /\ retried <=> Len(d.errs) < numOfAttempts
                    /\ IF n > 1
                       THEN /\ d.queueItems = SubSeq(c.queueItems, 1, n \div 2)
                            /\ d.truncs = c.truncs
                       ELSE /\ IdSeq(d.queueItems) = IdSeq(c.queueItems)
                            /\ d.truncs = c.truncs + 1
              /\ (size /\ StrLen \notin e /\ HangUp \notin e /\ c.truncs >= 1) =>
                    /\ ~retried
                    /\ d.queueItems = c.queueItems
                    /\ d.truncs = c.truncs
      ]_vars

\* C37: when the numOfAttempts-th write call of a cycle throws a
\* string-length error on a batch of n > 1 items, the cycle ends in that
\* step without another write call, and the split has been made all the
\* same: the last n - n \div 2 items are in front of what the queue held,
\* as they were (attempts unchanged); of the first n \div 2 items those
\* with attempts < maxAttempts are behind what the queue held with
\* attempts + 1, and the others are dropped and counted; no other item is
\* requeued or dropped.
C37_SplitOnLastAttempt ==
    [][ \A c \in cycles :
           (/\ c.pc = "writing"
            /\ c.calls = numOfAttempts
            /\ Len(c.queueItems) > 1
            /\ \A d \in cycles' : d.taken # c.taken
            /\ ended'.result = "failed"
            /\ ended'.cycle.taken = c.taken
            /\ OnlyStringLength(LastError(ended'.cycle)))
           => LET d == ended'.cycle
                  n == Len(c.queueItems)
                  t == c.table
                  retained == SubSeq(c.queueItems, 1, n \div 2)
                  remainder == SubSeq(c.queueItems, n \div 2 + 1, n)
                  Below(x) == x.attempts < maxAttempts
                  kept == SelectSeq(retained, Below)
                  back == [i \in DOMAIN kept |->
                              [kept[i] EXCEPT !.attempts = @ + 1, !.fails = @ + 1]]
                  gone == {x.id : x \in {y \in Range(retained) : ~Below(y)}}
              IN /\ d.calls = c.calls
                 /\ d.queueItems = retained
                 /\ queue'[t] = remainder \o queue[t] \o back
                 /\ dropped' = dropped \cup gone
                 /\ dropCounter' = dropCounter + Cardinality(gone)
                 /\ IdsOf(remainder) \cap dropped' = {}
      ]_vars

\* the second and last write call of a cycle that took four items threw a
\* string-length error after a retryable one: the third and fourth item
\* are at the front of the queue with attempts 1 and the first and second
\* at its back with attempts 2
C37_Witness ==
    /\ ended.result = "failed"
    /\ numOfAttempts = 2
    /\ ended.cycle.calls = 2
    /\ ended.cycle.errs = <<{HangUp}, {StrLen}>>
    /\ Len(ended.cycle.taken) = 4
    /\ LET q == queue[ended.cycle.table]
           b == ended.cycle.taken
       IN /\ Len(q) >= 4
          /\ IdSeq(SubSeq(q, 1, 2)) = IdSeq(SubSeq(b, 3, 4))
          /\ q[1].attempts = 1 /\ q[2].attempts = 1
          /\ IdSeq(SubSeq(q, Len(q) - 1, Len(q))) = IdSeq(SubSeq(b, 1, 2))
          /\ q[Len(q)].attempts = 2 /\ q[Len(q) - 1].attempts = 2

\* C38: whatever the store answers to the write calls, a set
\* isIntervalFlushInProgress is eventually cleared: the flag is set only
\* while a flush of the sweep runs, the step that ends the last of them
\* clears it, and every running flush ends; and whenever the flag is clear
\* and the timer installed, a tick can start a sweep.
C38_SweepEnds ==
    /\ isIntervalFlushInProgress ~> ~isIntervalFlushInProgress
    /\ [](isIntervalFlushInProgress => IntervalCycles(cycles) # {})
    /\ []((intervalId /\ ~isIntervalFlushInProgress) => ENABLED Tick)
    /\ [][ (IntervalCycles(cycles) # {} /\ IntervalCycles(cycles') = {}) =>
               (isIntervalFlushInProgress /\ ~isIntervalFlushInProgress')
         ]_vars

\* a sweep whose flush made numOfAttempts = 2 failed write calls has ended:
\* the flag is clear, the timer installed and the item put back is waiting
\* for the next tick
C38_Witness ==
    /\ ended.result = "failed"
    /\ ended.cycle.trigger = "interval"
    /\ ended.cycle.calls = 2
    /\ ~isIntervalFlushInProgress
    /\ intervalId
    /\ IdsOf(ended.cycle.queueItems) \cap IdsOf(queue[ended.cycle.table]) # {}
    /\ shut.pc = "idle"

====
